---- MODULE Spec2Model ----
(***************************************************************************)
(* Model of fetch.py (coordsToSVGMap): fetchAll projects and categorises   *)
(* the elements of an Overpass response, processRoads stitches the highway *)
(* fragments into black and white Road lists through                       *)
(* merge_road_into_list, and citiesToSVG draws the place markers.          *)
(*                                                                         *)
(* Numbers: degrees are integers in units of 1e-7 degree, planar           *)
(* coordinates are integers in units of 0.001 (the three decimals kept by  *)
(* round(.., 3)), stroke widths are integers in units of 0.01.             *)
(***************************************************************************)
EXTENDS Integers, Sequences, FiniteSets

VARIABLES elements, fetched, black, white, roads, svg, i, pc, err

vars == <<elements, fetched, black, white, roads, svg, i, pc, err>>

---------------------------------------------------------------------------
(* Bounds of the model *)

MaxElems == 3

NumPts == 3

NumChainPts == 4

---------------------------------------------------------------------------
(* Module constants of fetch.py *)

S_LAT == 497251436

W_LON == 119092547

N_LAT == 504799014

E_LON == 129414544

R_SCALE == 6371

(* cos(radians(lat0)) = 0.6414 to four places, lat0 = 50.1025225 *)
COS_LAT0_E4 == 6414

Abs(n) == IF n < 0 THEN -n ELSE n

Sign(n) == IF n < 0 THEN -1 ELSE 1

(* round(a * m / d) to the nearest integer, computed without leaving 32 bits *)
MulDivRound(a, m, d) ==
    LET q == Abs(a) \div d
        r == Abs(a) % d
    IN  Sign(a) * (q * m + ((r * m + (d \div 2)) \div d))

(* x of a projected point, in 0.001 units; lon - lon0 is (2 lon - W - E) / 2 *)
ProjectX(lon) ==
    MulDivRound(MulDivRound(2 * lon - (W_LON + E_LON), COS_LAT0_E4, 10000),
                R_SCALE, 20000)

(* y of a projected point, in 0.001 units; the sign is flipped *)
ProjectY(lat) ==
    -MulDivRound(2 * lat - (S_LAT + N_LAT), R_SCALE, 20000)

Project(pt) == <<ProjectX(pt.lon), ProjectY(pt.lat)>>

RECURSIVE ProjectGeometry(_)
ProjectGeometry(geometry) ==
    IF geometry = <<>> THEN <<>>
    ELSE LET pt == Head(geometry)
         IN  IF "lat" \notin DOMAIN pt \/ "lon" \notin DOMAIN pt
             THEN ProjectGeometry(Tail(geometry))
             ELSE <<Project(pt)>> \o ProjectGeometry(Tail(geometry))

---------------------------------------------------------------------------
(* set_road_width and the inset width of the white copy *)

(* Variant: categories outside the table get the width of a residential road *)
set_road_width_default(highway) ==
    IF highway \in {"motorway"} THEN 620
    ELSE IF highway \in {"trunk", "primary"} THEN 570
    ELSE IF highway = "secondary" THEN 375
    ELSE IF highway = "tertiary" THEN 300
    ELSE 100

set_road_width(highway) ==
    CASE highway = "motorway"     -> 620
      [] highway = "trunk"        -> 570
      [] highway = "primary"      -> 570
      [] highway = "secondary"    -> 375
      [] highway = "tertiary"     -> 300
      [] highway = "unclassified" -> 100
      [] highway = "residential"  -> 100
      [] OTHER                    -> 0

Max(a, b) == IF a >= b THEN a ELSE b

(* Variant: min instead of max *)
InsetWidthMin(base) == IF base - 100 <= 70 THEN base - 100 ELSE 70

InsetWidth(base) == Max(base - 100, 70)

Road(start, end, thickness, color, nodes) ==
    [start |-> start, end |-> end, thickness |-> thickness,
     nodes |-> nodes, color |-> color]

Reversed(s) == [k \in 1..Len(s) |-> s[Len(s) + 1 - k]]

---------------------------------------------------------------------------
(* merge_road_into_list *)

(* Variant: the thickness test is dropped *)
SameTypeAlways(existing, new_road) == TRUE

SameType(existing, new_road) == existing.thickness = new_road.thickness

(* Variant: the shared point is dropped from the appended nodes *)
MergeAppendDedup(existing, new_road) ==
    [existing EXCEPT !.nodes = existing.nodes \o Tail(new_road.nodes),
                     !.end = new_road.end]

MergeAppend(existing, new_road) ==
    [existing EXCEPT !.nodes = existing.nodes \o new_road.nodes,
                     !.end = new_road.end]

(* Variant: the start is not moved *)
MergePrependStaleStart(existing, new_road) ==
    [existing EXCEPT !.nodes = new_road.nodes \o existing.nodes]

MergePrepend(existing, new_road) ==
    [existing EXCEPT !.nodes = new_road.nodes \o existing.nodes,
                     !.start = new_road.start]

(* Variant: the nodes are appended without being reversed *)
MergeAppendUnreversed(existing, new_road) ==
    [existing EXCEPT !.nodes = existing.nodes \o new_road.nodes,
                     !.end = new_road.start]

MergeAppendReversed(existing, new_road) ==
    [existing EXCEPT !.nodes = existing.nodes \o Reversed(new_road.nodes),
                     !.end = new_road.start]

(* Variant: the start is set to the wrong end of the new road *)
MergePrependReversedWrongStart(existing, new_road) ==
    [existing EXCEPT !.nodes = Reversed(new_road.nodes) \o existing.nodes,
                     !.start = new_road.start]

MergePrependReversed(existing, new_road) ==
    [existing EXCEPT !.nodes = Reversed(new_road.nodes) \o existing.nodes,
                     !.start = new_road.end]

(* Variant: the scan does not stop at the first match, the last match wins *)
RECURSIVE MergeScanLastMatch(_, _, _)
MergeScanLastMatch(new_road, road_list, k) ==
    IF k > Len(road_list)
    THEN [merged |-> FALSE, list |-> road_list]
    ELSE LET existing == road_list[k]
             rest == MergeScanLastMatch(new_road, road_list, k + 1)
             hit(r) == [merged |-> TRUE, list |-> [road_list EXCEPT ![k] = r]]
         IN  IF rest.merged \/ existing.thickness # new_road.thickness
             THEN rest
             ELSE IF new_road.start = existing.end
             THEN hit(MergeAppend(existing, new_road))
             ELSE IF new_road.end = existing.start
             THEN hit(MergePrepend(existing, new_road))
             ELSE IF new_road.end = existing.end
             THEN hit(MergeAppendReversed(existing, new_road))
             ELSE IF new_road.start = existing.start
             THEN hit(MergePrependReversed(existing, new_road))
             ELSE rest

(* The scan from entry k on: the list after the call and the returned flag *)
RECURSIVE MergeScan(_, _, _)
MergeScan(new_road, road_list, k) ==
    IF k > Len(road_list)
    THEN [merged |-> FALSE, list |-> road_list]
    ELSE LET existing == road_list[k]
             hit(r) == [merged |-> TRUE, list |-> [road_list EXCEPT ![k] = r]]
         IN  IF ~SameType(existing, new_road)
             THEN MergeScan(new_road, road_list, k + 1)
             ELSE IF new_road.start = existing.end
             THEN hit(MergeAppend(existing, new_road))
             ELSE IF new_road.end = existing.start
             THEN hit(MergePrepend(existing, new_road))
             ELSE IF new_road.end = existing.end
             THEN hit(MergeAppendReversed(existing, new_road))
             ELSE IF new_road.start = existing.start
             THEN hit(MergePrependReversed(existing, new_road))
             ELSE MergeScan(new_road, road_list, k + 1)

merge_road_into_list(new_road, road_list) == MergeScan(new_road, road_list, 1)

(* "if not merge_road_into_list(new, lst): lst.append(new)" *)
MergeOrAppend(new_road, road_list) ==
    LET m == merge_road_into_list(new_road, road_list)
    IN  IF m.merged THEN m.list ELSE Append(m.list, new_road)

---------------------------------------------------------------------------
(* fetchAll: the loop over the response's elements *)

EmptyFetched ==
    [highways |-> <<>>, railways |-> <<>>, rivers |-> <<>>,
     lakes |-> <<>>, landuse |-> <<>>, cities |-> <<>>]

WithProjected(elem) ==
    IF "geometry" \in DOMAIN elem
    THEN [f \in DOMAIN elem \cup {"projected"} |->
             IF f = "projected" THEN ProjectGeometry(elem.geometry) ELSE elem[f]]
    ELSE elem

Category(tags) ==
    IF "highway" \in DOMAIN tags THEN "highways"
    ELSE IF "railway" \in DOMAIN tags THEN "railways"
    ELSE IF "waterway" \in DOMAIN tags THEN "rivers"
    ELSE IF ("natural" \in DOMAIN tags /\ tags["natural"] = "water")
            \/ "water" \in DOMAIN tags THEN "lakes"
    ELSE IF "landuse" \in DOMAIN tags THEN "landuse"
    ELSE IF "place" \in DOMAIN tags THEN "cities"
    ELSE "none"

RECURSIVE FetchLoop(_, _)
FetchLoop(elems, acc) ==
    IF elems = <<>> THEN acc
    ELSE LET elem == Head(elems)
         IN  IF "tags" \notin DOMAIN elem
             THEN FetchLoop(Tail(elems), acc)
             ELSE LET c == Category(elem.tags)
                  IN  IF c = "none"
                      THEN FetchLoop(Tail(elems), acc)
                      ELSE FetchLoop(Tail(elems),
                             [acc EXCEPT ![c] = Append(@, WithProjected(elem))])

---------------------------------------------------------------------------
(* The responses the model draws from *)

GeoPt(k) == [lat |-> S_LAT + 1000000 * k, lon |-> W_LON + 2000000 * k]

NoLatPt == [lon |-> W_LON]

GeoPts(n) == {GeoPt(k) : k \in 1..n}

Geometries(n) ==
    {<<>>, <<NoLatPt>>, <<NoLatPt, GeoPt(1)>>}
      \cup {<<p>> : p \in GeoPts(n)}
      \cup {<<p, q>> : p \in GeoPts(n), q \in GeoPts(n)}

HighwayKinds == {"motorway", "residential", "footway"}

Way(tags, geometry) == [type |-> "way", tags |-> tags, geometry |-> geometry]

HighwayElems(n) ==
    {Way([highway |-> h], g) : h \in HighwayKinds, g \in Geometries(n)}
      \cup {[type |-> "way", tags |-> [highway |-> h]] : h \in HighwayKinds}

PlaceElems ==
    {[type |-> "node", tags |-> [place |-> "town", name |-> "T"],
      lat |-> S_LAT + 1000000 + d, lon |-> W_LON + 2000000] : d \in {0, 449700}}

OtherElems ==
    {Way([railway |-> "rail"], <<GeoPt(1), GeoPt(2)>>), [type |-> "way"]}

RawElems == HighwayElems(NumPts) \cup PlaceElems \cup OtherElems

SeqsUpTo(S, n) == UNION {[1..m -> S] : m \in 0..n}

---------------------------------------------------------------------------
(* The run of the script *)

Init ==
    /\ elements \in SeqsUpTo(RawElems, MaxElems)
    /\ fetched = EmptyFetched
    /\ black = <<>>
    /\ white = <<>>
    /\ roads = <<>>
    /\ svg = <<>>
    /\ i = 0
    /\ pc = "fetch"
    /\ err = "none"

fetchAll ==
    /\ pc = "fetch"
    /\ fetched' = FetchLoop(elements, EmptyFetched)
    /\ pc' = "roads"
    /\ i' = 1
    /\ UNCHANGED <<elements, black, white, roads, svg, err>>

(* One iteration of the loop of processRoads over highway_elements. The    *)
(* run part of the script unpacks the dict fetchAll returns into six names *)
(* (fetch.py:461); processRoads is fed here the list under "highways", the *)
(* elements its code indexes by "tags" and "projected".                    *)
processRoadsStep ==
    /\ pc = "roads"
    /\ i <= Len(fetched.highways)
    /\ LET elem == fetched.highways[i]
       IN  IF "projected" \notin DOMAIN elem
           THEN /\ pc' = "error"
                /\ err' = "KeyError"
                /\ UNCHANGED <<black, white, i>>
           ELSE LET geom == elem.projected
                    base == set_road_width(elem.tags.highway)
                IN  IF base = 0
                    THEN /\ i' = i + 1
                         /\ UNCHANGED <<black, white, pc, err>>
                    ELSE IF geom = <<>>
                    THEN /\ pc' = "error"
                         /\ err' = "IndexError"
                         /\ UNCHANGED <<black, white, i>>
                    ELSE LET start == geom[1]
                             end == geom[Len(geom)]
                             new_black == Road(start, end, base, "black", geom)
                             new_white == Road(start, end, InsetWidth(base),
                                               "white", geom)
                         IN  /\ black' = MergeOrAppend(new_black, black)
                             /\ white' = MergeOrAppend(new_white, white)
                             /\ i' = i + 1
                             /\ UNCHANGED <<pc, err>>
    /\ UNCHANGED <<elements, fetched, roads, svg>>

processRoadsReturn ==
    /\ pc = "roads"
    /\ i > Len(fetched.highways)
    /\ roads' = black \o white
    /\ pc' = "cities"
    /\ UNCHANGED <<elements, fetched, black, white, svg, i, err>>

Marker(elem) ==
    [x |-> ProjectX(elem.lon), y |-> ProjectY(elem.lat), fill |-> "pink",
     name |-> IF "name" \in DOMAIN elem.tags THEN elem.tags.name ELSE "",
     lat |-> elem.lat, lon |-> elem.lon]

citiesToSVG ==
    /\ pc = "cities"
    /\ svg' = [k \in 1..Len(fetched.cities) |-> Marker(fetched.cities[k])]
    /\ pc' = "done"
    /\ UNCHANGED <<elements, fetched, black, white, roads, i, err>>

Next == fetchAll \/ processRoadsStep \/ processRoadsReturn \/ citiesToSVG

Spec == Init /\ [][Next]_vars

(* The response of the chain runs: two-point motorway ways over NumChainPts points *)
ChainElems ==
    {Way([highway |-> "motorway"], <<p, q>>) :
        p \in GeoPts(NumChainPts), q \in GeoPts(NumChainPts)}

InitChain ==
    /\ elements \in SeqsUpTo(ChainElems, MaxElems)
    /\ fetched = EmptyFetched
    /\ black = <<>>
    /\ white = <<>>
    /\ roads = <<>>
    /\ svg = <<>>
    /\ i = 0
    /\ pc = "fetch"
    /\ err = "none"

SpecChain == InitChain /\ [][Next]_vars

---------------------------------------------------------------------------
(* Vocabulary of the properties *)

TableKinds ==
    {"motorway", "trunk", "primary", "secondary", "tertiary",
     "unclassified", "residential"}

Highways == fetched.highways

HasNodes(elem) == "projected" \in DOMAIN elem /\ elem.projected # <<>>

Malformed(elem) == ~HasNodes(elem)

InTable(elem) == elem.tags.highway \in TableKinds

(* A fragment processRoads turns into a black and a white Road *)
Usable(elem) == HasNodes(elem) /\ InTable(elem)

First(s) == s[1]

Last(s) == s[Len(s)]

(* The highway elements whose loop iteration has completed *)
NumProcessed == IF pc = "fetch" THEN 0 ELSE i - 1

(* Exactly the first two highway elements have been processed *)
TwoProcessed == pc = "roads" /\ i = 3

RoadsReturned == pc \in {"cities", "done"}

RECURSIVE NodeCount(_)
NodeCount(list) ==
    IF list = <<>> THEN 0 ELSE Len(Head(list).nodes) + NodeCount(Tail(list))

RECURSIVE UsableNodeCount(_, _)
UsableNodeCount(elems, n) ==
    IF n = 0 THEN 0
    ELSE UsableNodeCount(elems, n - 1)
           + (IF Usable(elems[n]) THEN Len(elems[n].projected) ELSE 0)

(* Every segment a fragment of the drawn responses can become *)
CandidateRoads ==
    {Road(First(g), Last(g), t, "black", g) :
        g \in {ProjectGeometry(r) : r \in Geometries(NumPts)} \ {<<>>},
        t \in {620, 520, 100, 70}}

EndpointMatch(existing, new_road) ==
    \/ new_road.start = existing.end
    \/ new_road.end = existing.start
    \/ new_road.end = existing.end
    \/ new_road.start = existing.start

---------------------------------------------------------------------------
(* C1: every Road of the black and of the white list has a non-empty node  *)
(* sequence whose first node is its start and whose last node is its end,  *)
(* in every state of processRoads.                                         *)
C1_EndpointsAreNodeEnds ==
    \A list \in {black, white} : \A k \in 1..Len(list) :
        /\ list[k].nodes # <<>>
        /\ First(list[k].nodes) = list[k].start
        /\ Last(list[k].nodes) = list[k].end

(* A reversed prepend has acted: the second fragment shares only its start *)
(* with the start of the first.                                            *)
C1_Witness ==
    /\ TwoProcessed
    /\ Usable(Highways[1]) /\ Usable(Highways[2])
    /\ Len(black) = 1
    /\ First(Highways[2].projected) = First(Highways[1].projected)
    /\ Last(Highways[2].projected) # First(Highways[2].projected)
    /\ black[1].nodes = Reversed(Highways[2].projected) \o Highways[1].projected
    /\ black[1].start = Last(Highways[2].projected)

---------------------------------------------------------------------------
(* C2 as stated: A then B with A.end = B.start and equal thickness gives   *)
(* one segment A.nodes + B.nodes that ends at B.end and holds the junction *)
(* point once at the junction.                                             *)
C2_Joined ==
    /\ TwoProcessed
    /\ Usable(Highways[1]) /\ Usable(Highways[2])
    /\ set_road_width(Highways[1].tags.highway)
         = set_road_width(Highways[2].tags.highway)
    /\ Last(Highways[1].projected) = First(Highways[2].projected)

C2_JunctionOnce ==
    C2_Joined =>
        LET a == Highways[1].projected
            b == Highways[2].projected
        IN  /\ Len(black) = 1
            /\ black[1].nodes = a \o b
            /\ black[1].end = Last(b)
            /\ black[1].nodes[Len(a) + 1] # black[1].nodes[Len(a)]

(* C2 amended: the one segment is the plain concatenation A.nodes + B.nodes, *)
(* of length len(A) + len(B), in which the junction point stands twice in a  *)
(* row; it starts at A.start and ends at B.end, in both lists.               *)
C2_PlainConcatenation ==
    C2_Joined =>
        LET a == Highways[1].projected
            b == Highways[2].projected
        IN  \A list \in {black, white} :
              /\ Len(list) = 1
              /\ list[1].nodes = a \o b
              /\ Len(list[1].nodes) = Len(a) + Len(b)
              /\ list[1].nodes[Len(a)] = Last(a)
              /\ list[1].nodes[Len(a) + 1] = Last(a)
              /\ list[1].start = First(a)
              /\ list[1].end = Last(b)

C2_Witness ==
    /\ C2_Joined
    /\ Len(Highways[1].projected) = 2
    /\ Len(Highways[2].projected) = 2
    /\ Len(black[1].nodes) = 4
    /\ black[1].start # black[1].end

---------------------------------------------------------------------------
(* C3 as stated: a run over any permutation of the chain fragments         *)
(* A = (P1,P2), B = (P2,P3), C = (P0,P1) ends with one segment per list.   *)
Frag(k) == elements[k]["geometry"]

(* elements is a permutation of a chain; a, b, c are the positions of A, B, C *)
IsChain(a, b, c) ==
    /\ Len(elements) = 3
    /\ {a, b, c} = {1, 2, 3}
    /\ Last(Frag(a)) = First(Frag(b))
    /\ Last(Frag(c)) = First(Frag(a))
    /\ Cardinality({First(Frag(c)), First(Frag(a)),
                    First(Frag(b)), Last(Frag(b))}) = 4

ChainNodes(a, b, c) ==
    ProjectGeometry(Frag(c)) \o ProjectGeometry(Frag(a)) \o ProjectGeometry(Frag(b))

C3_AnyOrderOneSegment ==
    \A a, b, c \in 1..3 :
        (RoadsReturned /\ IsChain(a, b, c)) => Len(black) = 1 /\ Len(white) = 1

(* C3 amended: the run ends with the one chain C + A + B from P0 to P3 in   *)
(* the four permutations where the middle fragment A is not processed last, *)
(* and with two segments per list in the two where A is last.               *)
C3_OneSegmentUnlessMiddleLast ==
    \A a, b, c \in 1..3 :
        (RoadsReturned /\ IsChain(a, b, c)) =>
            \A list \in {black, white} :
                IF a # 3
                THEN /\ Len(list) = 1
                     /\ list[1].nodes = ChainNodes(a, b, c)
                     /\ list[1].start = Project(First(Frag(c)))
                     /\ list[1].end = Project(Last(Frag(b)))
                ELSE Len(list) = 2

(* The chain was fed in the order B, A, C and has collapsed *)
C3_Witness ==
    /\ RoadsReturned
    /\ IsChain(2, 1, 3)
    /\ Len(black) = 1
    /\ Len(black[1].nodes) = 6

---------------------------------------------------------------------------
(* C4: a new segment whose thickness differs from that of every entry is   *)
(* not merged, whatever endpoints it shares: merge_road_into_list returns  *)
(* False and leaves the list as it is, and the caller appends the segment. *)
C4_OtherThicknessNeverMerges ==
    \A list \in {black, white} : \A new_road \in CandidateRoads :
        (\A k \in 1..Len(list) : list[k].thickness # new_road.thickness) =>
            /\ merge_road_into_list(new_road, list).merged = FALSE
            /\ merge_road_into_list(new_road, list).list = list
            /\ MergeOrAppend(new_road, list) = list \o <<new_road>>

(* A fragment that starts where the first one ends, of another thickness,  *)
(* was appended as a second entry.                                         *)
C4_Witness ==
    /\ TwoProcessed
    /\ Len(black) = 2
    /\ black[1].thickness # black[2].thickness
    /\ black[2].start = black[1].end
    /\ black[1].nodes = Highways[1].projected
    /\ black[2].nodes = Highways[2].projected

---------------------------------------------------------------------------
(* C5 as stated: a highway feature without geometry, or whose projected    *)
(* node sequence is empty, is skipped; processRoads never stops on it with *)
(* an error.                                                               *)
C5_MalformedNeverAborts ==
    ~(pc = "error" /\ Malformed(Highways[i]))

---------------------------------------------------------------------------
(* C6 as stated: A then B with A.end = B.end and equal thickness gives one *)
(* segment that ends at B.start, its nodes A.nodes then B.nodes reversed.  *)
C6_EndsMeet ==
    /\ TwoProcessed
    /\ Usable(Highways[1]) /\ Usable(Highways[2])
    /\ set_road_width(Highways[1].tags.highway)
         = set_road_width(Highways[2].tags.highway)
    /\ Last(Highways[1].projected) = Last(Highways[2].projected)

C6_ReversedAppended ==
    LET a == Highways[1].projected
        b == Highways[2].projected
    IN  /\ Len(black) = 1
        /\ black[1].end = First(b)
        /\ black[1].nodes = a \o Reversed(b)
        /\ Len(white) = 1
        /\ white[1].end = First(b)
        /\ white[1].nodes = a \o Reversed(b)

C6_ReversalAlways == C6_EndsMeet => C6_ReversedAppended

(* C6 amended: the same, for A and B that are both open (A.start # A.end   *)
(* and B.start # B.end), so that neither of the two cases tested before    *)
(* the reversed append matches.                                            *)
C6_ReversalWhenOpen ==
    ( /\ C6_EndsMeet
      /\ First(Highways[1].projected) # Last(Highways[1].projected)
      /\ First(Highways[2].projected) # Last(Highways[2].projected) )
        => C6_ReversedAppended

C6_Witness ==
    /\ C6_EndsMeet
    /\ First(Highways[1].projected) # Last(Highways[1].projected)
    /\ First(Highways[2].projected) # Last(Highways[2].projected)
    /\ First(Highways[2].projected) # First(Highways[1].projected)
    /\ Len(black[1].nodes) = 4
    /\ black[1].end = First(Highways[2].projected)

---------------------------------------------------------------------------
(* C7: a fragment whose highway category is not in the width table adds no *)
(* entry and no node to the black or the white list: the lists hold        *)
(* exactly the nodes of the processed fragments of the table's categories, *)
(* and no more entries than there are such fragments.                      *)
C7_UnmappedNeverAppears ==
    \A list \in {black, white} :
        /\ NodeCount(list) = UsableNodeCount(Highways, NumProcessed)
        /\ Len(list) <= Cardinality({k \in 1..NumProcessed : Usable(Highways[k])})
        /\ \A k \in 1..Len(list) : list[k].thickness # 0

(* An unmapped fragment that touches the first road was processed between  *)
(* two fragments of the table.                                             *)
C7_Witness ==
    /\ pc = "roads" /\ i = 4
    /\ Usable(Highways[1]) /\ Usable(Highways[3])
    /\ Highways[2].tags.highway = "footway"
    /\ HasNodes(Highways[2])
    /\ First(Highways[2].projected) = Last(Highways[1].projected)
    /\ NodeCount(black) = Len(Highways[1].projected) + Len(Highways[3].projected)

---------------------------------------------------------------------------
(* C8 as stated: the colour of a place marker follows the parity of        *)
(* band = floor(d / 5 km), d the distance of the place to the reference    *)
(* point: two markers whose bands differ in parity differ in colour. The   *)
(* reference point is the first place of the drawn responses and the       *)
(* places lie on its meridian, where the haversine distance is R * dlat.   *)
MeridianDistanceM(lat) ==
    LET dlat == Abs(lat - (S_LAT + 1000000))
    IN  ((dlat \div 100) * 11119) \div 10000

Band(lat) == MeridianDistanceM(lat) \div 5000

C8_ColourFollowsBandParity ==
    \A m, n \in 1..Len(svg) :
        (Band(svg[m].lat) % 2 # Band(svg[n].lat) % 2) => svg[m].fill # svg[n].fill

---------------------------------------------------------------------------
(* C9: a call of merge_road_into_list changes at most one entry, the       *)
(* earliest one of equal thickness that matches one of the four endpoint   *)
(* cases, by the first matching case in the order start-end, end-start,    *)
(* end-end, start-start; the other entries, the length and the order stay, *)
(* and the call returns True exactly when such an entry exists.            *)
Matching(new_road, list) ==
    {k \in 1..Len(list) :
        list[k].thickness = new_road.thickness /\ EndpointMatch(list[k], new_road)}

Minimum(S) == CHOOSE k \in S : \A j \in S : k <= j

FirstCase(e, n) ==
    IF n.start = e.end
    THEN [start |-> e.start, end |-> n.end, thickness |-> e.thickness,
          nodes |-> e.nodes \o n.nodes, color |-> e.color]
    ELSE IF n.end = e.start
    THEN [start |-> n.start, end |-> e.end, thickness |-> e.thickness,
          nodes |-> n.nodes \o e.nodes, color |-> e.color]
    ELSE IF n.end = e.end
    THEN [start |-> e.start, end |-> n.start, thickness |-> e.thickness,
          nodes |-> e.nodes \o Reversed(n.nodes), color |-> e.color]
    ELSE [start |-> n.end, end |-> e.end, thickness |-> e.thickness,
          nodes |-> Reversed(n.nodes) \o e.nodes, color |-> e.color]

C9_FirstMatchOnly ==
    \A list \in {black, white} : \A new_road \in CandidateRoads :
        LET r == merge_road_into_list(new_road, list)
            M == Matching(new_road, list)
        IN  /\ r.merged = (M # {})
            /\ Len(r.list) = Len(list)
            /\ M = {} => r.list = list
            /\ M # {} =>
                 /\ \A j \in 1..Len(list) : j # Minimum(M) => r.list[j] = list[j]
                 /\ r.list[Minimum(M)] = FirstCase(list[Minimum(M)], new_road)

(* Two entries of the list match one new segment, the first of them on two *)
(* of the cases.                                                           *)
C9_Witness ==
    /\ Len(black) = 2
    /\ \E new_road \in CandidateRoads :
         /\ Matching(new_road, black) = {1, 2}
         /\ new_road.start = black[1].end
         /\ new_road.end = black[1].start
         /\ new_road.start # new_road.end

---------------------------------------------------------------------------
(* C10: the black and the white list move in lockstep: equal length, and   *)
(* entry by entry equal start, end and nodes, the white thickness being    *)
(* max(black - 1, 0.7); the map from wide to inset thickness is one-to-one *)
(* on the table; the returned list is black then white, of even length.    *)
C10_Lockstep ==
    /\ Len(black) = Len(white)
    /\ \A k \in 1..Len(black) :
         /\ black[k].start = white[k].start
         /\ black[k].end = white[k].end
         /\ black[k].nodes = white[k].nodes
         /\ white[k].thickness
              = (IF black[k].thickness - 100 >= 70
                 THEN black[k].thickness - 100 ELSE 70)
         /\ black[k].color = "black"
         /\ white[k].color = "white"
    /\ \A h1, h2 \in TableKinds :
         (set_road_width(h1) = set_road_width(h2))
           <=> (InsetWidth(set_road_width(h1)) = InsetWidth(set_road_width(h2)))
    /\ RoadsReturned =>
         /\ roads = black \o white
         /\ Len(roads) = 2 * Len(black)

(* Two roads of different widths, one of them merged, have been returned *)
C10_Witness ==
    /\ RoadsReturned
    /\ Len(black) = 2
    /\ black[1].thickness # black[2].thickness
    /\ Len(black[1].nodes) = 4
    /\ Len(roads) = 4

====
